---- MODULE Spec2Model ----
(***************************************************************************)
(* Model of the WHIP signaller of webrtcsink                               *)
(* (plugins/src/signaller/imp.rs): the controller state behind a mutex,    *)
(* the connect sequence spawned by start(), the bounded mpsc mailbox, the  *)
(* sender loop that folds SDP/ICE fragments into one text buffer and       *)
(* POSTs it, the gather timer tasks, the send tasks spawned by the         *)
(* handle_* entry points, and stop().                                      *)
(*                                                                         *)
(* Text is a sequence of tokens, so that `contains`, `write!` and          *)
(* `writeln!` are real operations on text.                                 *)
(***************************************************************************)
EXTENDS Integers, Sequences, FiniteSets, Bags, TLC

\* ---------------------------------------------------------------- bounds
MaxStarts == 2      \* start() calls in one behaviour
MaxStops == 1       \* stop() calls in one behaviour
MaxCalls == 1       \* handle_* calls in one behaviour of Spec
MaxAggCalls == 3    \* handle_* calls in one behaviour of SpecAgg
ChannelBuffer == 2  \* the buffer of mpsc::channel(1000), scaled down

\* ---------------------------------------------------------------- inputs
Sessions == {"p1", "p2"}

Offer == <<"v=0", "\n", "m=video", "\n">>
Offers == {Offer}

Cand18 == <<"candidate:", "1", "8", " 1 UDP">>
Cand81 == <<"candidate:", "8", "1", " 1 UDP">>
Candidates == {Cand18, Cand81}

AnswerText == <<"v=0", "a=setup:passive">>
ErrorText == <<"Internal Server Error", "a=x">>

\* ------------------------------------------------------------------ text
\* str::contains: pat occurs in s as a contiguous run
Contains(s, pat) ==
    \E i \in 0..(Len(s) - Len(pat)) :
        \A j \in 1..Len(pat) : s[i + j] = pat[j]

\* candidate.contains("candidate:18")
IsSentinel(candidate) == Contains(candidate, <<"candidate:", "1", "8">>)

\* writeln!(xsdp, "a={}", candidate)
WritelnCandidate(xsdp, candidate) == xsdp \o <<"a=">> \o candidate \o <<"\n">>

\* write!(xsdp, "{}", sdp)
WriteSdp(xsdp, sdp) == xsdp \o sdp

\* writeln!(xsdp, "a=end-of-candidates") on do_whip's own copy
EndOfCandidates == <<"a=end-of-candidates", "\n">>
WhipBody(xsdp) == xsdp \o EndOfCandidates

\* gst_sdp::SDPMessage::parse_buffer: fails on an empty buffer, otherwise
\* keeps the lines of the form <type>=<value> and skips the others
IsSdpLine(l) == l \in {"v=0", "a=setup:passive", "a=x"}
ParseOk(body) == Len(body) > 0
ParseBuffer(body) == SelectSeq(body, IsSdpLine)

\* ----------------------------------------------------------------- state
VARIABLES
    state,         \* State behind Signaller.state: the three Option fields (0 = None, else a connection)
    stop,          \* the stop() call holding the state mutex, with the handles it took
    conns,         \* one record per connect() run: channel, xsdp, sender loop, receiver loop, timers
    connectTasks,  \* connect tasks spawned by start() that have not run yet
    sendTasks,     \* tasks spawned by handle_sdp / handle_ice / consumer_removed, not yet run
    elementAlive,  \* whether WeakRef<WebRTCSink>::upgrade() still yields the element
    posts,         \* HTTP exchanges issued by do_whip, in order, with their responses
    callbacks,     \* calls made into the element: a bag
    nStarts, nStops, nCalls,   \* calls made so far
    quiet,         \* a stop() has returned and start() has not been called since
    joined,        \* connections that a returned stop() had found in the state
    settings,      \* Settings behind Signaller.settings
    connecting     \* the connect() call that holds the state mutex, if any

vars == <<state, stop, conns, connectTasks, sendTasks, elementAlive, posts,
          callbacks, nStarts, nStops, nCalls, quiet, joined, settings,
          connecting>>

None == 0
Pending == [kind |-> "pending"]

\* WhipMessage
Ice(id, candidate) == [type |-> "Ice", id |-> id, candidate |-> candidate, candix |-> 0]
Sdp(id, sdp) == [type |-> "Sdp", id |-> id, sdp |-> sdp]
ConsumerRemovedMsg(id) == [type |-> "ConsumerRemoved", id |-> id]
GatherTimeout == [type |-> "GatherTimeout", id |-> ""]

\* responses of the WHIP endpoint as reqwest reports them: send()? or
\* bytes()? failing, or a response of any status with a body
Http(status, body) == [kind |-> "http", status |-> status, body |-> body]
Responses ==
    {[kind |-> "transport"], Http(200, AnswerText), Http(500, ErrorText), Http(500, <<>>)}

\* the errors handed to handle_signalling_error: reqwest's from send()? /
\* bytes()?, the channel's SendError, and those the element itself returned
\* from add_consumer and handle_sdp
ErrTransport == [kind |-> "Transport"]
ErrSend == [kind |-> "SendError"]
ErrAddConsumer == [kind |-> "add_consumer"]
ErrHandleSdp == [kind |-> "handle_sdp"]

\* callbacks into the element
CbError(err) == [cb |-> "handle_signalling_error", err |-> err]
CbAnswer(id, sdp) == [cb |-> "handle_sdp", id |-> id, sdp |-> sdp]
CbAddConsumer == [cb |-> "add_consumer", id |-> "xid"]

Called(cbs, cb) == cbs (+) SetToBag({cb})

\* element_clone.upgrade() then handle_signalling_error
ReportError(cbs, err) == IF elementAlive THEN Called(cbs, CbError(err)) ELSE cbs

\* Settings::default()
SettingsDefault == [address |-> "ws://127.0.0.1:8443", cafile |-> None]

\* the address do_whip posts to
WhipUrl == "http://192.168.86.3:7080/whip/endpoint/foo"

\* State::default()
StateDefault == [websocket_sender |-> None, send_task_handle |-> None,
                 receive_task_handle |-> None]

StopIdle == [pc |-> "idle", send |-> None, recv |-> None]

\* no connect() is between state.lock() and its return
ConnectIdle == [pc |-> "idle", conn |-> None]

\* the state mutex is free: no stop() and no connect() is inside its
\* critical section, and none panicked while holding it (which poisons the
\* mutex)
LockFree == stop.pc = "idle" /\ connecting.pc = "idle"

Init ==
    /\ state = StateDefault
    /\ stop = StopIdle
    /\ conns = <<>>
    /\ connectTasks = 0
    /\ sendTasks = {}
    /\ elementAlive = TRUE
    /\ posts = <<>>
    /\ callbacks = EmptyBag
    /\ nStarts = 0 /\ nStops = 0 /\ nCalls = 0
    /\ quiet = FALSE
    /\ joined = {}
    /\ settings = SettingsDefault
    /\ connecting = ConnectIdle

\* -------------------------------------------------------- start / connect
\* Signaller::start: spawn the connect task, return at once
Start ==
    /\ elementAlive
    /\ nStarts < MaxStarts
    /\ nStarts' = nStarts + 1
    /\ connectTasks' = connectTasks + 1
    /\ quiet' = FALSE
    /\ UNCHANGED <<settings, connecting, state, stop, conns, sendTasks, elementAlive, posts,
                   callbacks, nStops, nCalls, joined>>

\* what connect() creates: the channel, xsdp = "", the two spawned tasks
\* and the snapshot _settings
\* (log: the messages the sender loop has received so far; atClose: the
\* loop's position and queue when stop() closed the channel)
NewConn == [queue |-> <<>>, open |-> TRUE, xsdp |-> <<>>, pc |-> "run",
            cur |-> None, recv |-> "run", timers |-> 0, log |-> <<>>,
            atClose |-> None, settings |-> SettingsDefault]

\* Signaller::connect, run by the task start() spawned: it has no await, so
\* it runs to its end once it gets the state mutex; add_consumer's result
\* is the element's
Connect(addOk) ==
    /\ connectTasks > 0
    /\ LockFree
    /\ connectTasks' = connectTasks - 1
    /\ conns' = Append(conns, [NewConn EXCEPT !.settings = settings])
    /\ LET c == Len(conns) + 1 IN
         state' = [websocket_sender |-> c, send_task_handle |-> c,
                   receive_task_handle |-> c]
    /\ callbacks' = IF addOk THEN Called(callbacks, CbAddConsumer)
                    ELSE Called(Called(callbacks, CbAddConsumer), CbError(ErrAddConsumer))
    /\ UNCHANGED <<settings, connecting, stop, sendTasks, elementAlive, posts, nStarts, nStops,
                   nCalls, quiet, joined>>

\* ObjectImpl::set_property for "address" with a value
SetAddress(address) ==
    /\ settings' = [settings EXCEPT !.address = address]
    /\ UNCHANGED <<connecting, state, stop, conns, connectTasks, sendTasks,
                   elementAlive, posts, callbacks, nStarts, nStops, nCalls,
                   quiet, joined>>

\* Signaller::connect in two steps. First step: the snapshot, the channel,
\* the two tasks, state.lock(), the three fields, and the call of
\* element.add_consumer("xid"), made with the guard `state` still alive
ConnectLock ==
    /\ connectTasks > 0
    /\ LockFree
    /\ connectTasks' = connectTasks - 1
    /\ conns' = Append(conns, [NewConn EXCEPT !.settings = settings])
    /\ LET c == Len(conns) + 1 IN
         /\ state' = [websocket_sender |-> c, send_task_handle |-> c,
                      receive_task_handle |-> c]
         /\ connecting' = [pc |-> "add_consumer", conn |-> c]
    /\ callbacks' = Called(callbacks, CbAddConsumer)
    /\ UNCHANGED <<settings, stop, sendTasks, elementAlive, posts, nStarts,
                   nStops, nCalls, quiet, joined>>

\* second step: add_consumer returns, connect returns and drops the guard
AddConsumerReturn(addOk) ==
    /\ connecting.pc = "add_consumer"
    /\ connecting' = ConnectIdle
    /\ callbacks' = IF addOk THEN callbacks
                    ELSE Called(callbacks, CbError(ErrAddConsumer))
    /\ UNCHANGED <<settings, state, stop, conns, connectTasks, sendTasks,
                   elementAlive, posts, nStarts, nStops, nCalls, quiet, joined>>

\* what a second lock() by the thread that holds a std::sync::Mutex may do:
\* it never returns; it blocks for ever or it panics, and the panic unwinds
\* through connect and poisons the mutex
Relock == {"deadlocked", "poisoned"}

\* the element, inside add_consumer, calls handle_sdp, handle_ice,
\* consumer_removed or stop on the signaller: the call starts with
\* self.state.lock() on the thread that holds the guard
AddConsumerReenter(outcome) ==
    /\ connecting.pc = "add_consumer"
    /\ connecting' = [connecting EXCEPT !.pc = outcome]
    /\ UNCHANGED <<settings, state, stop, conns, connectTasks, sendTasks,
                   elementAlive, posts, callbacks, nStarts, nStops, nCalls,
                   quiet, joined>>

\* the receive task: no loop is left in it, it logs and ends
ReceiveTask(c) ==
    /\ conns[c].recv = "run"
    /\ conns' = [conns EXCEPT ![c].recv = "done"]
    /\ UNCHANGED <<settings, connecting, state, stop, connectTasks, sendTasks, elementAlive, posts,
                   callbacks, nStarts, nStops, nCalls, quiet, joined>>

\* ------------------------------------------------- handle_* entry points
\* the part common to handle_sdp, handle_ice and consumer_removed: under
\* the state mutex, clone the sender if there is one and spawn a task that
\* sends msg on the clone; with no sender the message is dropped
SpawnSend(msg) ==
    /\ elementAlive
    /\ LockFree
    /\ nCalls' = nCalls + 1
    /\ sendTasks' = IF state.websocket_sender # None
                    THEN sendTasks \cup {[conn |-> state.websocket_sender,
                                          msg |-> msg, call |-> nCalls + 1]}
                    ELSE sendTasks
    /\ UNCHANGED <<settings, connecting, state, stop, conns, connectTasks, elementAlive, posts,
                   callbacks, nStarts, nStops, quiet, joined>>

\* Signaller::handle_sdp
HandleSdp(peer_id, sdp) == SpawnSend(Sdp(peer_id, sdp))

\* Signaller::handle_ice
HandleIce(peer_id, candidate) == SpawnSend(Ice(peer_id, candidate))

\* Signaller::consumer_removed
ConsumerRemoved(peer_id) == SpawnSend(ConsumerRemovedMsg(peer_id))

\* sender.send(msg).await on a fresh clone of the sender: a clone's first
\* message is queued whatever the queue holds; on a closed channel the send
\* fails and the error goes to the element if it is still there
ChannelSend(c, msg) == [conns EXCEPT ![c].queue = Append(@, msg)]

\* the senders whose send(..).await has queued its message and waits for the
\* receiver to wake it: one for each queued message beyond the buffer
Parked(conn) ==
    IF Len(conn.queue) > ChannelBuffer THEN Len(conn.queue) - ChannelBuffer
    ELSE 0

\* the task spawned by a handle_* call
SendTask(t) ==
    /\ t \in sendTasks
    /\ sendTasks' = sendTasks \ {t}
    /\ IF conns[t.conn].open
       THEN /\ conns' = ChannelSend(t.conn, t.msg)
            /\ UNCHANGED callbacks
       ELSE /\ callbacks' = ReportError(callbacks, ErrSend)
            /\ UNCHANGED conns
    /\ UNCHANGED <<settings, connecting, state, stop, connectTasks, elementAlive, posts, nStarts,
                   nStops, nCalls, quiet, joined>>

\* the task spawned by the Sdp arm: sleep 500 ms, then send GatherTimeout
\* with an empty id on its clone of the sender
TimerTask(c) ==
    /\ conns[c].timers > 0
    /\ IF conns[c].open
       THEN /\ conns' = [ChannelSend(c, GatherTimeout) EXCEPT ![c].timers = @ - 1]
            /\ UNCHANGED callbacks
       ELSE /\ conns' = [conns EXCEPT ![c].timers = @ - 1]
            /\ callbacks' = ReportError(callbacks, ErrSend)
    /\ UNCHANGED <<settings, connecting, state, stop, connectTasks, sendTasks, elementAlive, posts,
                   nStarts, nStops, nCalls, quiet, joined>>

\* ----------------------------------------------------------- sender loop
\* do_whip up to the blocking send(): the POST carries the peer id of the
\* message that triggered it and the copy of xsdp with the
\* end-of-candidates line
WhipPost(c, conn, peer_id) ==
    [conn |-> c, id |-> peer_id, body |-> WhipBody(conn.xsdp),
     at |-> Len(conn.log), resp |-> Pending, url |-> WhipUrl]

\* (variant: do_whip writes the end-of-candidates line into the loop's own
\* buffer)
IceArm_InPlace(c, conn, msg) ==
    IF IsSentinel(msg.candidate)
    THEN [conn |-> [conn EXCEPT !.pc = "whip", !.cur = msg,
                                !.xsdp = WhipBody(@)],
          posts |-> Append(posts, WhipPost(c, conn, msg.id))]
    ELSE [conn |-> [conn EXCEPT !.xsdp = WritelnCandidate(@, msg.candidate)],
          posts |-> posts]

\* the arms of the match: each takes the loop's record after the message
\* was received and gives the record and the exchanges after the arm (for
\* the Ice arm with a sentinel: up to the point where do_whip blocks)
IceArm(c, conn, msg) ==
    IF IsSentinel(msg.candidate)
    THEN [conn |-> [conn EXCEPT !.pc = "whip", !.cur = msg],
          posts |-> Append(posts, WhipPost(c, conn, msg.id))]
    ELSE [conn |-> [conn EXCEPT !.xsdp = WritelnCandidate(@, msg.candidate)],
          posts |-> posts]

SdpArm(c, conn, msg) ==
    [conn |-> [conn EXCEPT !.timers = @ + 1, !.xsdp = WriteSdp(@, msg.sdp)],
     posts |-> posts]

\* fun_name(): prints
ConsumerRemovedArm(c, conn, msg) == [conn |-> conn, posts |-> posts]

\* (variant: the GatherTimeout arm flushes the buffer as the sentinel does)
GatherTimeoutArm_Flush(c, conn, msg) ==
    [conn |-> conn, posts |-> Append(posts, WhipPost(c, conn, msg.id))]

\* println!("..GatherTimeout")
GatherTimeoutArm(c, conn, msg) == [conn |-> conn, posts |-> posts]

Dispatch(c, conn, msg) ==
    CASE msg.type = "Ice" -> IceArm(c, conn, msg)
      [] msg.type = "Sdp" -> SdpArm(c, conn, msg)
      [] msg.type = "ConsumerRemoved" -> ConsumerRemovedArm(c, conn, msg)
      [] msg.type = "GatherTimeout" -> GatherTimeoutArm(c, conn, msg)

\* whip_receiver.next().await yields a message
SenderRecv(c) ==
    /\ conns[c].pc = "run"
    /\ conns[c].queue # <<>>
    /\ LET msg == Head(conns[c].queue)
           got == [conns[c] EXCEPT !.queue = Tail(@), !.log = Append(@, msg)]
           r == Dispatch(c, got, msg)
       IN /\ conns' = [conns EXCEPT ![c] = r.conn]
          /\ posts' = r.posts
    /\ UNCHANGED <<settings, connecting, state, stop, connectTasks, sendTasks, elementAlive,
                   callbacks, nStarts, nStops, nCalls, quiet, joined>>

\* (variant: the stream ends as soon as the channel is closed)
ReceiverEnded_NoDrain(conn) == ~conn.open

\* whip_receiver.next().await yields None: the channel was closed and no
\* message is left in it
ReceiverEnded(conn) == ~conn.open /\ conn.queue = <<>>

SenderExit(c) ==
    /\ conns[c].pc = "run"
    /\ ReceiverEnded(conns[c])
    /\ conns' = [conns EXCEPT ![c].pc = "done"]
    /\ UNCHANGED <<settings, connecting, state, stop, connectTasks, sendTasks, elementAlive, posts,
                   callbacks, nStarts, nStops, nCalls, quiet, joined>>

\* (variant: the answer is delivered under add_consumer's fixed id)
WhipOutcome_FixedId(peer_id, resp, deliverOk) ==
    IF resp.kind = "transport" THEN [panic |-> FALSE, cbs |-> SetToBag({CbError(ErrTransport)})]
    ELSE IF ~elementAlive THEN [panic |-> FALSE, cbs |-> EmptyBag]
    ELSE IF ~ParseOk(resp.body) THEN [panic |-> TRUE, cbs |-> EmptyBag]
    ELSE [panic |-> FALSE,
          cbs |-> SetToBag({CbAnswer("xid", ParseBuffer(resp.body))} \cup
                           (IF deliverOk THEN {} ELSE {CbError(ErrHandleSdp)}))]

\* what do_whip does with the response: Err from send()? / bytes()?, a
\* panic from parse_buffer(..).unwrap(), else element.handle_sdp with the
\* parsed body whatever the status; deliverOk is the element's result
WhipOutcome(peer_id, resp, deliverOk) ==
    IF resp.kind = "transport" THEN [panic |-> FALSE, cbs |-> SetToBag({CbError(ErrTransport)})]
    ELSE IF ~elementAlive THEN [panic |-> FALSE, cbs |-> EmptyBag]
    ELSE IF ~ParseOk(resp.body) THEN [panic |-> TRUE, cbs |-> EmptyBag]
    ELSE [panic |-> FALSE,
          cbs |-> SetToBag({CbAnswer(peer_id, ParseBuffer(resp.body))} \cup
                           (IF deliverOk THEN {} ELSE {CbError(ErrHandleSdp)}))]

\* the blocking POST returns: do_whip finishes, its error if any goes to
\* the element, and the Ice arm appends the candidate to xsdp
WhipResponse(c, resp, deliverOk) ==
    /\ conns[c].pc = "whip"
    /\ LET msg == conns[c].cur
           out == WhipOutcome(msg.id, resp, deliverOk)
           i == CHOOSE k \in DOMAIN posts : posts[k].conn = c /\ posts[k].resp = Pending
       IN /\ posts' = [posts EXCEPT ![i].resp = resp]
          /\ callbacks' = IF elementAlive THEN callbacks (+) out.cbs ELSE callbacks
          /\ conns' = IF out.panic
                      THEN [conns EXCEPT ![c].pc = "panicked", ![c].cur = None]
                      ELSE [conns EXCEPT ![c].pc = "run", ![c].cur = None,
                                         ![c].xsdp = WritelnCandidate(@, msg.candidate)]
    /\ UNCHANGED <<settings, connecting, state, stop, connectTasks, sendTasks, elementAlive,
                   nStarts, nStops, nCalls, quiet, joined>>

\* ------------------------------------------------------------------ stop
\* Signaller::stop with no sender in the state: the (absent) handles are
\* taken and stop returns without closing or joining anything
StopNotConnected ==
    /\ elementAlive
    /\ LockFree
    /\ nStops < MaxStops
    /\ state.websocket_sender = None
    /\ nStops' = nStops + 1
    /\ state' = StateDefault
    /\ quiet' = TRUE
    /\ UNCHANGED <<settings, connecting, stop, conns, connectTasks, sendTasks, elementAlive, posts,
                   callbacks, nStarts, nCalls, joined>>

\* Signaller::stop with a sender: take the three fields, close the channel
\* and start joining, all under the state mutex
StopClose ==
    /\ elementAlive
    /\ LockFree
    /\ nStops < MaxStops
    /\ state.websocket_sender # None
    /\ nStops' = nStops + 1
    /\ state' = StateDefault
    /\ stop' = [pc |-> "joinSend", send |-> state.send_task_handle,
                recv |-> state.receive_task_handle]
    /\ LET c == state.websocket_sender IN
         conns' = [conns EXCEPT ![c].open = FALSE,
                                ![c].atClose = [pc |-> conns[c].pc,
                                                queue |-> conns[c].queue]]
    /\ UNCHANGED <<settings, connecting, connectTasks, sendTasks, elementAlive, posts, callbacks,
                   nStarts, nCalls, quiet, joined>>

\* handle.await on the send task completes when the task has ended
SendTaskJoinable(conn) == conn.pc \in {"done", "panicked"}

\* (variant: stop does not await the send task)
StopJoinSend_NoWait ==
    /\ stop.pc = "joinSend"
    /\ stop' = [stop EXCEPT !.pc = "joinRecv"]
    /\ UNCHANGED <<settings, connecting, state, conns, connectTasks, sendTasks, elementAlive, posts,
                   callbacks, nStarts, nStops, nCalls, quiet, joined>>

\* stop awaits the send task: it goes on when the loop returned, and panics
\* (poisoning the state mutex it holds) when the loop had panicked
StopJoinSend ==
    /\ stop.pc = "joinSend"
    /\ IF stop.send = None
       THEN stop' = [stop EXCEPT !.pc = "joinRecv"]
       ELSE /\ SendTaskJoinable(conns[stop.send])
            /\ stop' = [stop EXCEPT !.pc = IF conns[stop.send].pc = "done"
                                           THEN "joinRecv" ELSE "panicked"]
    /\ UNCHANGED <<settings, connecting, state, conns, connectTasks, sendTasks, elementAlive, posts,
                   callbacks, nStarts, nStops, nCalls, quiet, joined>>

\* handle.await on the receive task
RecvTaskJoinable(conn) == conn.recv = "done"

\* stop awaits the receive task, then returns and releases the mutex
StopJoinRecv ==
    /\ stop.pc = "joinRecv"
    /\ stop.recv # None => RecvTaskJoinable(conns[stop.recv])
    /\ stop' = StopIdle
    /\ quiet' = TRUE
    /\ joined' = joined \cup ({stop.send, stop.recv} \ {None})
    /\ UNCHANGED <<settings, connecting, state, conns, connectTasks, sendTasks, elementAlive, posts,
                   callbacks, nStarts, nStops, nCalls>>

\* the last strong reference to the element goes away; it cannot while a
\* connect task (which holds a clone) or a stop() call (which borrows it)
\* is running
ElementDropped ==
    /\ elementAlive
    /\ connectTasks = 0
    /\ stop.pc \notin {"joinSend", "joinRecv"}
    /\ elementAlive' = FALSE
    /\ UNCHANGED <<settings, connecting, state, stop, conns, connectTasks, sendTasks, posts,
                   callbacks, nStarts, nStops, nCalls, quiet, joined>>

\* -------------------------------------------------------- specifications
ConnIds == DOMAIN conns

\* Spec: the whole controller from construction, driven by one session
LifeSessions == {"p1"}

Next ==
    \/ Start
    \/ \E addOk \in BOOLEAN : Connect(addOk)
    \/ \E c \in ConnIds : ReceiveTask(c)
    \/ nCalls < MaxCalls /\ \E id \in LifeSessions, sdp \in Offers : HandleSdp(id, sdp)
    \/ nCalls < MaxCalls /\ \E id \in LifeSessions, cand \in Candidates : HandleIce(id, cand)
    \/ nCalls < MaxCalls /\ \E id \in LifeSessions : ConsumerRemoved(id)
    \/ \E t \in sendTasks : SendTask(t)
    \/ \E c \in ConnIds : TimerTask(c)
    \/ \E c \in ConnIds : SenderRecv(c)
    \/ \E c \in ConnIds : SenderExit(c)
    \/ \E c \in ConnIds, resp \in Responses, ok \in BOOLEAN : WhipResponse(c, resp, ok)
    \/ StopNotConnected
    \/ StopClose
    \/ StopJoinSend
    \/ StopJoinRecv
    \/ ElementDropped

Spec == Init /\ [][Next]_vars

\* SpecAgg: the connected controller (after start(), connect() and the end
\* of the receive task) fed fragments of two sessions, with no further
\* start() or stop()
InitAgg ==
    /\ state = [websocket_sender |-> 1, send_task_handle |-> 1,
                receive_task_handle |-> 1]
    /\ stop = StopIdle
    /\ conns = <<[NewConn EXCEPT !.recv = "done"]>>
    /\ connectTasks = 0
    /\ sendTasks = {}
    /\ elementAlive = TRUE
    /\ posts = <<>>
    /\ callbacks = SetToBag({CbAddConsumer})
    /\ nStarts = 1 /\ nStops = 0 /\ nCalls = 0
    /\ quiet = FALSE
    /\ joined = {}
    /\ settings = SettingsDefault
    /\ connecting = ConnectIdle

NextAgg ==
    \/ nCalls < MaxAggCalls /\ \E id \in Sessions, sdp \in Offers : HandleSdp(id, sdp)
    \/ nCalls < MaxAggCalls /\ \E id \in Sessions, cand \in Candidates : HandleIce(id, cand)
    \/ nCalls < MaxAggCalls /\ \E id \in Sessions : ConsumerRemoved(id)
    \/ \E t \in sendTasks : SendTask(t)
    \/ \E c \in ConnIds : TimerTask(c)
    \/ \E c \in ConnIds : SenderRecv(c)
    \/ \E c \in ConnIds, resp \in Responses, ok \in BOOLEAN : WhipResponse(c, resp, ok)
    \/ ElementDropped

SpecAgg == InitAgg /\ [][NextAgg]_vars

\* SpecConn: construction, set_property and start() with connect() taken in
\* its two steps, then one candidate of one session up to its exchange
Addresses == {SettingsDefault.address, "http://whip.example/endpoint"}

NextConn ==
    \/ \E address \in Addresses : SetAddress(address)
    \/ Start
    \/ ConnectLock
    \/ \E addOk \in BOOLEAN : AddConsumerReturn(addOk)
    \/ \E outcome \in Relock : AddConsumerReenter(outcome)
    \/ nCalls < MaxCalls /\ \E id \in LifeSessions, cand \in Candidates : HandleIce(id, cand)
    \/ \E t \in sendTasks : SendTask(t)
    \/ \E c \in ConnIds : SenderRecv(c)
    \/ \E c \in ConnIds, resp \in Responses, ok \in BOOLEAN : WhipResponse(c, resp, ok)

SpecConn == Init /\ [][NextConn]_vars

\* ================================================================ claims
PostsOf(c) == SelectSeq(posts, LAMBDA p : p.conn = c)
PostsFor(c, s) == SelectSeq(posts, LAMBDA p : p.conn = c /\ p.id = s)
CandLine(candidate) == <<"a=">> \o candidate \o <<"\n">>
IsSentinelMsg(m) == m.type = "Ice" /\ IsSentinel(m.candidate)
IsFragment(m) == m.type \in {"Sdp", "Ice"}
FragmentText(m) == IF m.type = "Sdp" THEN m.sdp ELSE CandLine(m.candidate)
EndsWith(s, suffix) ==
    /\ Len(s) >= Len(suffix)
    /\ SubSeq(s, Len(s) - Len(suffix) + 1, Len(s)) = suffix
Is2xx(status) == status \in 200..299
Rejected(status) == [kind |-> "Rejected", status |-> status]
\* this step, the sender loop of c received message m
Received(c, m) ==
    /\ c \in DOMAIN conns'
    /\ conns'[c].log = Append(conns[c].log, m)
\* this step, the response r to exchange i arrived
Answered(i, r) ==
    /\ posts[i].resp = Pending
    /\ posts' = [posts EXCEPT ![i].resp = r]

\* C1: per sender loop and session id, at most one HTTP exchange is issued,
\* whatever fragments are processed.
C1_AtMostOneExchange ==
    \A c \in ConnIds, s \in Sessions : Len(PostsFor(c, s)) <= 1

\* C2: once the sender loop has processed the offer of a session and then a
\* GatherTimeout, and no sentinel candidate was processed, exactly one
\* exchange has been issued for that session.
C2_TimeoutFallback ==
    \A c \in ConnIds :
        LET log == conns[c].log IN
        \A i \in DOMAIN log :
            ( /\ log[i].type = "Sdp"
              /\ \A k \in DOMAIN log : log[k].type = "Sdp" => k = i
              /\ \E j \in DOMAIN log : j > i /\ log[j].type = "GatherTimeout"
              /\ \A k \in DOMAIN log : ~IsSentinelMsg(log[k]) )
            => Len(PostsFor(c, log[i].id)) = 1

\* C3: the step that processes a sentinel candidate issues the exchange for
\* that candidate's session, and a GatherTimeout processed after a sentinel
\* was processed issues no exchange, calls nothing and leaves the
\* aggregation buffer and the loop as they were.
C3_TimeoutAfterSentinelIsNoOp ==
    [][\A c \in ConnIds :
         /\ \A m \in {Ice(id, cand) : id \in Sessions, cand \in Candidates} :
              (Received(c, m) /\ IsSentinel(m.candidate)) =>
                 /\ Len(posts') = Len(posts) + 1
                 /\ posts'[Len(posts')].conn = c
                 /\ posts'[Len(posts')].id = m.id
         /\ ( /\ Received(c, GatherTimeout)
              /\ \E k \in DOMAIN conns[c].log : IsSentinelMsg(conns[c].log[k]) )
            => /\ posts' = posts
               /\ callbacks' = callbacks
               /\ conns'[c].xsdp = conns[c].xsdp
               /\ conns'[c].pc = conns[c].pc
               /\ conns'[c].timers = conns[c].timers
      ]_vars

\* an offer, then its session's sentinel (one exchange), then a GatherTimeout
C3_Witness ==
    \E c \in ConnIds :
        LET log == conns[c].log IN
        \E i, j, k \in DOMAIN log :
            /\ i < j /\ j < k
            /\ log[i].type = "Sdp"
            /\ IsSentinelMsg(log[j]) /\ log[j].id = log[i].id
            /\ log[k] = GatherTimeout
            /\ Len(PostsOf(c)) = 1

\* C4: after SdpOffer{s, sdp} and then the sentinel IceCandidate{s, c} were
\* processed, exactly one exchange was issued, and its body contains sdp and
\* the candidate line of c and ends with the end-of-candidates line.
C4_OfferThenSentinelBody ==
    \A c \in ConnIds :
        LET log == conns[c].log IN
        ( /\ Len(log) = 2
          /\ log[1].type = "Sdp"
          /\ IsSentinelMsg(log[2])
          /\ log[2].id = log[1].id )
        => /\ Len(PostsOf(c)) = 1
           /\ LET body == PostsOf(c)[1].body IN
                /\ Contains(body, log[1].sdp)
                /\ Contains(body, CandLine(log[2].candidate))
                /\ EndsWith(body, EndOfCandidates)

\* C5: ConsumerRemoved{s} issues no exchange; a fragment of s processed
\* before the removal is in no later exchange body (unless it was processed
\* again after the removal); and when the removal is the only message of s,
\* no exchange is issued for s.
C5_RemovalDestroysSession ==
    \A c \in ConnIds :
        LET log == conns[c].log
            ps == PostsOf(c)
        IN /\ \A n \in DOMAIN ps : log[ps[n].at].type # "ConsumerRemoved"
           /\ \A n \in DOMAIN ps : \A i, j \in DOMAIN log :
                ( /\ i < j /\ j < ps[n].at
                  /\ log[j].type = "ConsumerRemoved"
                  /\ IsFragment(log[i]) /\ log[i].id = log[j].id
                  /\ \A k \in (j + 1)..ps[n].at : log[k] # log[i] )
                => ~Contains(ps[n].body, FragmentText(log[i]))
           /\ \A s \in Sessions :
                ( /\ \E j \in DOMAIN log : log[j] = ConsumerRemovedMsg(s)
                  /\ \A j \in DOMAIN log : log[j].id = s => log[j] = ConsumerRemovedMsg(s) )
                => Len(PostsFor(c, s)) = 0

\* C6: when an exchange is answered with a non-2xx status while the element
\* is alive, the element gets an error callback carrying that status, gets
\* no handle_sdp call, and no further POST is issued.
C6_RejectedIsReported ==
    [][\A i \in DOMAIN posts : \A r \in Responses :
         ( /\ Answered(i, r)
           /\ r.kind = "http" /\ ~Is2xx(r.status)
           /\ elementAlive )
         => /\ CopiesIn(CbError(Rejected(r.status)), callbacks') =
                  CopiesIn(CbError(Rejected(r.status)), callbacks) + 1
            /\ \A cb \in BagToSet(callbacks') :
                 cb.cb = "handle_sdp" => CopiesIn(cb, callbacks') = CopiesIn(cb, callbacks)
      ]_vars

\* the log is an offer of s, then non-sentinel candidates of s, then the
\* sentinel of s
RoundTripLog(log, s) ==
    /\ Len(log) >= 2
    /\ log[1].type = "Sdp" /\ log[1].id = s
    /\ IsSentinelMsg(log[Len(log)]) /\ log[Len(log)].id = s
    /\ \A k \in 2..(Len(log) - 1) :
          log[k].type = "Ice" /\ log[k].id = s /\ ~IsSentinel(log[k].candidate)

WellFormedAnswer(body) == body # <<>> /\ \A k \in DOMAIN body : IsSdpLine(body[k])

\* C7: when the log of a sender loop is an offer of s, then non-sentinel
\* candidates of s, then the sentinel of s, and the exchange is answered 2xx
\* with a well-formed answer while the element is alive, that step calls
\* the element's handle_sdp once with session id s and exactly that answer.
C7_RoundTrip ==
    [][\A i \in DOMAIN posts : \A r \in Responses : \A s \in Sessions :
         ( /\ Answered(i, r)
           /\ r.kind = "http" /\ Is2xx(r.status) /\ WellFormedAnswer(r.body)
           /\ elementAlive
           /\ RoundTripLog(conns[posts[i].conn].log, s) )
         => /\ posts[i].id = s
            /\ CopiesIn(CbAnswer(s, r.body), callbacks') =
                  CopiesIn(CbAnswer(s, r.body), callbacks) + 1
            /\ \A cb \in BagToSet(callbacks') :
                  (cb.cb = "handle_sdp" /\ cb # CbAnswer(s, r.body))
                     => CopiesIn(cb, callbacks') = CopiesIn(cb, callbacks)
      ]_vars

\* offer, one or more plain candidates and the sentinel of s were answered
\* 200 with the answer, and the element got it under s
C7_Witness ==
    \E c \in ConnIds : \E s \in Sessions :
        /\ RoundTripLog(conns[c].log, s)
        /\ Len(conns[c].log) >= 3
        /\ conns[c].pc = "run"
        /\ elementAlive
        /\ Len(posts) = 1 /\ posts[1].resp = Http(200, AnswerText)
        /\ CopiesIn(CbAnswer(s, AnswerText), callbacks) = 1

\* C8: a stop() that found a mailbox sender returns only when the sender
\* loop and the receiver loop of that connection have ended, and when it
\* returns the controller state holds no sender and no task handle.
C8_StopJoinsBothTasks ==
    [][(stop.pc # "idle" /\ stop'.pc = "idle") =>
         /\ stop.send # None /\ stop.recv # None
         /\ conns[stop.send].pc = "done"
         /\ conns[stop.recv].recv = "done"
         /\ state' = StateDefault
      ]_vars

\* a stop() has returned that had closed the channel while the exchange
\* was in flight
C8_Witness ==
    \E c \in joined :
        /\ conns[c].atClose.pc = "whip"
        /\ stop.pc = "idle"
        /\ state = StateDefault

\* C9: once a stop() call has returned and until start() is called again,
\* no sender loop receives a message.
C9_NoProcessingAfterStop ==
    [][quiet => \A c \in ConnIds : conns'[c].log = conns[c].log]_vars

\* C10: when stop() has returned for a connection, its mailbox is empty and
\* the messages that were queued when stop() closed it have been processed,
\* in order; a sender loop that returned had a closed and drained mailbox.
C10_DrainedBeforeStopReturns ==
    /\ \A c \in joined :
          /\ conns[c].queue = <<>>
          /\ EndsWith(conns[c].log, conns[c].atClose.queue)
    /\ \A c \in ConnIds :
          conns[c].pc = "done" => ~conns[c].open /\ conns[c].queue = <<>>

\* a stop() has returned that had closed a mailbox holding messages
C10_Witness ==
    \E c \in joined :
        /\ conns[c].atClose.queue # <<>>
        /\ stop.pc = "idle"

\* C11: start() is idempotent: once every connect() spawned by the start()
\* calls made so far has run, and no stop() was called, there is exactly one
\* mailbox, every sender loop and receive task that has not ended is the one
\* whose handle the state holds, and add_consumer was called exactly once.
C11_StartIdempotent ==
    (nStarts >= 1 /\ nStops = 0 /\ connectTasks = 0) =>
        /\ Len(conns) = 1
        /\ \A c \in ConnIds :
              /\ conns[c].pc \in {"run", "whip"} => state.send_task_handle = c
              /\ conns[c].recv = "run" => state.receive_task_handle = c
        /\ CopiesIn(CbAddConsumer, callbacks) = 1

\* C12: a handle_sdp, handle_ice or consumer_removed call made while the
\* state holds no mailbox sender (before connect() installed one, or after
\* stop() took it) queues nothing and is not dropped silently: by its return
\* a delivery error went to the element, or a task is left that will report
\* it.
C12_AbsentMailboxReported ==
    [][(nCalls' = nCalls + 1 /\ state.websocket_sender = None) =>
          /\ conns' = conns
          /\ \/ CopiesIn(CbError(ErrSend), callbacks')
                   = CopiesIn(CbError(ErrSend), callbacks) + 1
             \/ sendTasks' # sendTasks
      ]_vars

\* this step, the send task t put its message into the mailbox
Enqueued(t) ==
    /\ t \in sendTasks
    /\ t \notin sendTasks'
    /\ conns'[t.conn].queue = Append(conns[t.conn].queue, t.msg)

\* C13: messages of one session enter the mailbox, which the sender loop
\* empties first in first out, in the order of the handle_* calls that made
\* them: a message is queued only when no earlier call's message for the
\* same session is still waiting to be sent.
C13_CallOrderIsProcessingOrder ==
    [][\A t \in sendTasks :
         Enqueued(t) =>
            ~\E e \in sendTasks :
                /\ e.call < t.call
                /\ e.conn = t.conn
                /\ e.msg.id = t.msg.id
      ]_vars

\* nothing is left that could act for connection c: its mailbox is empty,
\* its sender loop waits for a message, and no send task, timer or exchange
\* of c is pending
Quiescent(c) ==
    /\ conns[c].queue = <<>>
    /\ conns[c].pc = "run"
    /\ conns[c].timers = 0
    /\ \A t \in sendTasks : t.conn # c
    /\ \A i \in DOMAIN posts : posts[i].conn = c => posts[i].resp # Pending

\* the element was called with an answer for session s or with an error
Notified(s) ==
    \E cb \in BagToSet(callbacks) :
        \/ cb.cb = "handle_signalling_error"
        \/ cb.cb = "handle_sdp" /\ cb.id = s

\* C14: no silent hang: with the element alive and no stop(), once
\* everything started for a connection has run to its end (the gather
\* timers have fired and were processed, sentinel or not), every session
\* whose offer the sender loop processed has had an answer or an error
\* delivered to the element.
C14_NoSilentHang ==
    \A c \in ConnIds :
        (elementAlive /\ nStops = 0 /\ Quiescent(c)) =>
            \A k \in DOMAIN conns[c].log :
                conns[c].log[k].type = "Sdp" => Notified(conns[c].log[k].id)

\* C15: every exchange is posted to the endpoint address of the settings
\* snapshot its connection took in connect(), whatever that address was and
\* whatever the settings became afterwards.
C15_PostToSnapshotAddress ==
    \A i \in DOMAIN posts :
        posts[i].url = conns[posts[i].conn].settings.address

\* C16: aggregation is per session: the body of an exchange issued for a
\* session holds no fragment that was processed for another session (unless
\* the session itself had a fragment of the same text processed).
C16_BodyHoldsOwnFragmentsOnly ==
    \A i \in DOMAIN posts :
        LET p == posts[i]
            log == conns[p.conn].log
        IN \A k \in 1..p.at :
              ( /\ IsFragment(log[k])
                /\ log[k].id # p.id
                /\ ~\E j \in 1..p.at :
                       /\ IsFragment(log[j])
                       /\ log[j].id = p.id
                       /\ FragmentText(log[j]) = FragmentText(log[k]) )
              => ~Contains(p.body, FragmentText(log[k]))

\* C17: the mailbox is bounded: a send task that runs while the open mailbox
\* holds its capacity queues nothing and reports a delivery error to the
\* element, no sender waits with a message queued, and the mailbox never
\* holds more messages than its capacity.
C17_MailboxBounded ==
    [][/\ \A t \in sendTasks :
            ( /\ t \notin sendTasks'
              /\ conns[t.conn].open
              /\ Len(conns[t.conn].queue) >= ChannelBuffer
              /\ elementAlive )
            => /\ conns'[t.conn].queue = conns[t.conn].queue
               /\ CopiesIn(CbError(ErrSend), callbacks')
                     = CopiesIn(CbError(ErrSend), callbacks) + 1
       /\ \A c \in ConnIds :
            /\ Len(conns'[c].queue) <= ChannelBuffer
            /\ Parked(conns'[c]) = 0
      ]_vars

\* the text made by the fragments among the first n messages of log, in the
\* order the sender loop processed them
RECURSIVE BufferAfter(_, _)
BufferAfter(log, n) ==
    IF n = 0 THEN <<>>
    ELSE IF IsFragment(log[n])
         THEN BufferAfter(log, n - 1) \o FragmentText(log[n])
         ELSE BufferAfter(log, n - 1)

\* C18: the body of every exchange is the aggregation buffer as it stood
\* when the exchange was triggered (the fragments processed before the
\* triggering candidate, in order) followed by one end-of-candidates line,
\* which is its last line and occurs nowhere before; the buffer never holds
\* that line, and an exchange, answered or failed, leaves the buffer as it
\* found it: after it the buffer is the fragments processed so far and
\* nothing else.
C18_BodyIsBufferPlusEndOfCandidates ==
    /\ \A i \in DOMAIN posts :
          LET p == posts[i]
              buffer == BufferAfter(conns[p.conn].log, p.at - 1)
          IN /\ p.body = buffer \o EndOfCandidates
             /\ ~Contains(buffer, EndOfCandidates)
    /\ \A c \in ConnIds :
          LET conn == conns[c] IN
          /\ ~Contains(conn.xsdp, EndOfCandidates)
          /\ conn.xsdp = BufferAfter(conn.log,
                                     IF conn.pc \in {"whip", "panicked"}
                                     THEN Len(conn.log) - 1
                                     ELSE Len(conn.log))

\* an exchange triggered on a buffer that held fragments has been answered
\* and the sender loop went on
C18_Witness ==
    \E i \in DOMAIN posts :
        LET p == posts[i] IN
        /\ p.resp # Pending
        /\ BufferAfter(conns[p.conn].log, p.at - 1) # <<>>
        /\ conns[p.conn].pc = "run"
        /\ Len(conns[p.conn].log) > p.at

\* C19: the state mutex is not held while connect() is inside
\* element.add_consumer, and a handle_* or stop call the element makes from
\* within add_consumer gets the mutex and returns: it neither blocks for
\* ever nor panics.
C19_NoLockAcrossAddConsumer ==
    /\ connecting.pc = "add_consumer" => LockFree
    /\ connecting.pc \notin Relock

\* the calls of handle_sdp and handle_signalling_error made on the element
AnswersAndErrors(cbs) ==
    {cb \in BagToSet(cbs) : cb.cb \in {"handle_sdp", "handle_signalling_error"}}

\* C20: once a stop() that found the controller connected has returned, and
\* until start() is called again, with no connect() left to run, the
\* element gets no further answer and no further error, whatever timer
\* tasks and send tasks started before the stop() still have to run.
C20_NoCallbackAfterStop ==
    [][(quiet /\ joined # {} /\ connectTasks = 0) =>
          \A cb \in AnswersAndErrors(callbacks') :
              CopiesIn(cb, callbacks') = CopiesIn(cb, callbacks)
      ]_vars

====
